---- MODULE Spec2Model ----
(***************************************************************************)
(* A model of rustywind's class-sorting engine (src/utils.rs) and of the   *)
(* resolution of its options (src/options.rs).                             *)
(*                                                                         *)
(* Text is modelled at the level of characters: a string is a sequence of  *)
(* one-character strings, so that whitespace splitting, prefix stripping   *)
(* by byte offset, substring replacement and pattern matching are computed *)
(* the way the code computes them.                                         *)
(***************************************************************************)
EXTENDS Integers, Sequences, FiniteSets, Bags, TLC

VARIABLES
    pc,               \* position of the run
    cli,              \* the parsed command line (Cli)
    cli_regex,        \* new_from_cli: the value bound to cli_regex
    result,           \* what Options::new_from_cli ended with
    options,          \* the resolved Options (regex, sorter, allow_duplicates)
    file_contents,    \* the text handed to has_classes / sort_file_contents
    matched,          \* the value has_classes returned
    rewritten,        \* the value sort_file_contents returned
    rewritten_again,  \* sort_file_contents applied to its own output
    class_string,     \* the class string handed to sort_classes
    sorted_classes    \* the value sort_classes returned

vars == <<pc, cli, cli_regex, result, options, file_contents, matched,
          rewritten, rewritten_again, class_string, sorted_classes>>

(***************************************************************************)
(* Bounds of the model.                                                    *)
(***************************************************************************)
MaxTokens == 3
MaxPieces == 5
MaxEntries == 1

(***************************************************************************)
(* Generic helpers.                                                        *)
(***************************************************************************)
None == <<>>
Some(x) == <<x>>

Range(s) == {s[i] : i \in 1..Len(s)}

RECURSIVE Flatten(_)
Flatten(ss) == IF ss = <<>> THEN <<>> ELSE Head(ss) \o Flatten(Tail(ss))

SeqsUpTo(S, n) == UNION {[1..k -> S] : k \in 0..n}

Max(S) == CHOOSE x \in S : \A y \in S : y <= x
Min(S) == CHOOSE x \in S : \A y \in S : x <= y

BagOfSeq(s) == [x \in Range(s) |-> Cardinality({i \in 1..Len(s) : s[i] = x})]

(***************************************************************************)
(* Class names used by the model, spelled out as character sequences.      *)
(***************************************************************************)
T_flex == <<"f", "l", "e", "x">>
T_px2 == <<"p", "x", "-", "2">>
T_py2 == <<"p", "y", "-", "2">>
T_inline == <<"i", "n", "l", "i", "n", "e">>
T_inline_block == <<"i", "n", "l", "i", "n", "e", "-", "b", "l", "o", "c", "k">>
T_justify_end == <<"j", "u", "s", "t", "i", "f", "y", "-", "e", "n", "d">>
T_random_class == <<"r", "a", "n", "d", "o", "m", "-", "c", "l", "a", "s", "s">>
T_sm == <<"s", "m">>
T_md == <<"m", "d">>
T_zz == <<"z", "z">>
T_yy == <<"y", "y">>
T_sm_flex == T_sm \o <<":">> \o T_flex
T_sm_px2 == T_sm \o <<":">> \o T_px2
T_md_flex == T_md \o <<":">> \o T_flex
T_sm_zz == T_sm \o <<":">> \o T_zz

(***************************************************************************)
(* The catalogs of consts.rs and defaults.rs.  The variant catalog is a    *)
(* two-prefix fragment and its matcher the anchored longest-prefix match   *)
(* of the Variant Prefix Catalog; the built-in table is the fragment whose *)
(* order the test test_sort_classes_vec pins down.                         *)
(***************************************************************************)
VARIANTS == <<T_sm, T_md>>

IsPrefixOf(p, s) == Len(p) <= Len(s) /\ SubSeq(s, 1, Len(p)) = p

\* VARIANT_SEARCHER.find(class).map(|m| m.pattern()): the catalog index of the
\* longest catalog prefix the token starts with (the first such on a tie).
VARIANT_SEARCHER_find(class) ==
    LET hits == {k \in 1..Len(VARIANTS) : IsPrefixOf(VARIANTS[k], class)}
        best == {k \in hits : \A j \in hits : Len(VARIANTS[j]) <= Len(VARIANTS[k])}
    IN  IF hits = {} THEN None ELSE Some(Min(best))

SORTER_order == <<T_inline_block, T_inline, T_flex, T_justify_end, T_py2, T_px2>>

SORTER == [k \in Range(SORTER_order) |->
              (CHOOSE i \in 1..Len(SORTER_order) : SORTER_order[i] = k) - 1]

(***************************************************************************)
(* options.rs: Sorter and parse_custom_sorter.                             *)
(***************************************************************************)
DefaultSorter == [tag |-> "DefaultSorter"]
CustomSorter(map) == [tag |-> "CustomSorter", map |-> map]

\* enumerate() pairs each class with its 0-based index; collecting into a
\* HashMap keeps, for a class listed twice, the index of its last listing.
parse_custom_sorter(contents) ==
    CustomSorter([k \in Range(contents) |->
                     Max({i \in 1..Len(contents) : contents[i] = k}) - 1])

(***************************************************************************)
(* utils.rs: sort_classes and what it calls.                               *)
(***************************************************************************)
AsciiWhitespace == {" ", "\t", "\n", "\r", "\f"}

RECURSIVE SplitWs(_, _)
SplitWs(s, cur) ==
    IF s = <<>> THEN (IF cur = <<>> THEN <<>> ELSE <<cur>>)
    ELSE IF Head(s) \in AsciiWhitespace
         THEN (IF cur = <<>> THEN <<>> ELSE <<cur>>) \o SplitWs(Tail(s), <<>>)
         ELSE SplitWs(Tail(s), Append(cur, Head(s)))

split_ascii_whitespace(s) == SplitWs(s, <<>>)

\* Vec::dedup in place of unique: only a repeat next to its original goes.
unique_adjacent(tokens) ==
    LET kept == {i \in 1..Len(tokens) : i = 1 \/ tokens[i - 1] # tokens[i]}
        RECURSIVE Keep(_)
        Keep(i) == IF i > Len(tokens) THEN <<>>
                   ELSE (IF i \in kept THEN <<tokens[i]>> ELSE <<>>) \o Keep(i + 1)
    IN  Keep(1)

\* Itertools::unique: every element the first time it is seen.
unique(tokens) ==
    LET first == {i \in 1..Len(tokens) : \A j \in 1..(i - 1) : tokens[j] # tokens[i]}
        RECURSIVE Keep(_)
        Keep(i) == IF i > Len(tokens) THEN <<>>
                   ELSE (IF i \in first THEN <<tokens[i]>> ELSE <<>>) \o Keep(i + 1)
    IN  Keep(1)

\* sorter.get(class)
SorterGet(sorter, class) == IF class \in DOMAIN sorter THEN Some(sorter[class]) ELSE None

\* slice::sort_by_key on (class, placement) pairs: a stable sort by placement.
RECURSIVE InsertByKey(_, _)
InsertByKey(sorted, item) ==
    IF sorted = <<>> THEN <<item>>
    ELSE IF Head(sorted)[2] <= item[2]
         THEN <<Head(sorted)>> \o InsertByKey(Tail(sorted), item)
         ELSE <<item>> \o sorted

RECURSIVE sort_by_key(_)
sort_by_key(v) ==
    IF v = <<>> THEN <<>>
    ELSE InsertByKey(sort_by_key(SubSeq(v, 1, Len(v) - 1)), v[Len(v)])

Classes(pairs) == [i \in 1..Len(pairs) |-> pairs[i][1]]

\* class.get(class_after..): None when the offset is past the end.
GetFrom(class, class_after) ==
    IF class_after <= Len(class)
    THEN Some(SubSeq(class, class_after + 1, Len(class)))
    ELSE None

\* class.get(class_after..).and_then(|class| sorter.get(class))
ResidualPlacement(class, class_after, sorter) ==
    LET rest == GetFrom(class, class_after)
    IN  IF rest = None THEN None ELSE SorterGet(sorter, rest[1])

sort_variant_classes_dropping(classes, custom_classes, class_after, sorter) ==
    LET known == SelectSeq(classes,
                     LAMBDA c : ResidualPlacement(c, class_after, sorter) # None)
        tailwind_classes == [i \in 1..Len(known) |->
                     <<known[i], ResidualPlacement(known[i], class_after, sorter)[1]>>]
    IN  <<Classes(sort_by_key(tailwind_classes)), custom_classes>>

sort_variant_classes_unsorted(classes, custom_classes, class_after, sorter) ==
    LET known == SelectSeq(classes,
                     LAMBDA c : ResidualPlacement(c, class_after, sorter) # None)
        unknown == SelectSeq(classes,
                     LAMBDA c : ResidualPlacement(c, class_after, sorter) = None)
    IN  <<known, custom_classes \o unknown>>

sort_variant_classes(classes, custom_classes, class_after, sorter) ==
    LET known == SelectSeq(classes,
                     LAMBDA c : ResidualPlacement(c, class_after, sorter) # None)
        unknown == SelectSeq(classes,
                     LAMBDA c : ResidualPlacement(c, class_after, sorter) = None)
        tailwind_classes == [i \in 1..Len(known) |->
                     <<known[i], ResidualPlacement(known[i], class_after, sorter)[1]>>]
    IN  <<Classes(sort_by_key(tailwind_classes)), custom_classes \o unknown>>

\* The three buckets the first loop of sort_classes_vec fills.
tailwind_classes_unsorted(classes, sorter) ==
    LET keyed == SelectSeq(classes, LAMBDA c : SorterGet(sorter, c) # None)
    IN  [i \in 1..Len(keyed) |-> <<keyed[i], SorterGet(sorter, keyed[i])[1]>>]

tailwind_classes(classes, sorter) ==
    LET keyed == SelectSeq(classes, LAMBDA c : SorterGet(sorter, c) # None)
    IN  sort_by_key([i \in 1..Len(keyed) |-> <<keyed[i], SorterGet(sorter, keyed[i])[1]>>])

custom_classes_reversed(classes, sorter) ==
    LET plain == SelectSeq(classes, LAMBDA c :
                     SorterGet(sorter, c) = None /\ VARIANT_SEARCHER_find(c) = None)
    IN  [i \in 1..Len(plain) |-> plain[Len(plain) + 1 - i]]

custom_classes(classes, sorter) ==
    SelectSeq(classes, LAMBDA c :
        SorterGet(sorter, c) = None /\ VARIANT_SEARCHER_find(c) = None)

variants(classes, sorter) ==
    LET grouped == SelectSeq(classes, LAMBDA c :
                       SorterGet(sorter, c) = None /\ VARIANT_SEARCHER_find(c) # None)
        prefixes == {VARIANTS[VARIANT_SEARCHER_find(grouped[i])[1]] : i \in 1..Len(grouped)}
    IN  [p \in prefixes |->
            SelectSeq(grouped, LAMBDA c : VARIANTS[VARIANT_SEARCHER_find(c)[1]] = p)]

\* for key in VARIANTS.iter() { ... }: the pair
\* <<sorted_variant_classes, custom_classes>> after the keys from k on.
RECURSIVE VariantLoop(_, _, _, _, _)
VariantLoop(k, groups, sorted_variant_classes, custom, sorter) ==
    IF k > Len(VARIANTS) THEN <<sorted_variant_classes, custom>>
    ELSE LET key == VARIANTS[k]
             r == sort_variant_classes(
                      IF key \in DOMAIN groups THEN groups[key] ELSE <<>>,
                      custom, Len(key) + 1, sorter)
         IN  VariantLoop(k + 1, groups, sorted_variant_classes \o r[1], r[2], sorter)

sort_classes_vec(classes, sorter) ==
    LET sorted_tailwind_classes == Classes(tailwind_classes(classes, sorter))
        looped == VariantLoop(1, variants(classes, sorter), <<>>,
                              custom_classes(classes, sorter), sorter)
    IN  sorted_tailwind_classes \o looped[1] \o looped[2]

ActiveSorter(opts) ==
    IF opts.sorter.tag = "DefaultSorter" THEN SORTER ELSE opts.sorter.map

\* The token iterator sort_classes hands to sort_classes_vec.
InputTokens(s, opts) ==
    IF opts.allow_duplicates THEN split_ascii_whitespace(s)
    ELSE unique(split_ascii_whitespace(s))

RECURSIVE PushAll(_)
PushAll(str_vec) ==
    IF str_vec = <<>> THEN <<>>
    ELSE Head(str_vec) \o <<" ">> \o PushAll(Tail(str_vec))

\* String::pop
Pop(string) == IF string = <<>> THEN <<>> ELSE SubSeq(string, 1, Len(string) - 1)

sort_classes(s, opts) ==
    Pop(PushAll(sort_classes_vec(InputTokens(s, opts), ActiveSorter(opts))))

(***************************************************************************)
(* Values of the variables a run does not use.                             *)
(***************************************************************************)
DefaultRegex == [tag |-> "DefaultRegex"]
NoCli == [custom_regex |-> None, config_file |-> None, allow_duplicates |-> FALSE]
Pending == [tag |-> "Pending"]
NoOptions == [regex |-> DefaultRegex, sorter |-> DefaultSorter, allow_duplicates |-> FALSE]

(***************************************************************************)
(* The sorter on its own: sort_classes applied to a class string.          *)
(***************************************************************************)
TokenPool == {T_flex, T_px2, T_sm_flex, T_sm_px2, T_md_flex, T_sm_zz, T_sm, T_zz, T_yy}

RECURSIVE JoinWith(_, _)
JoinWith(tokens, sep) ==
    IF tokens = <<>> THEN <<>>
    ELSE IF Len(tokens) = 1 THEN tokens[1]
    ELSE Head(tokens) \o sep \o JoinWith(Tail(tokens), sep)

ExampleTokens == <<T_inline, T_inline_block, T_random_class, T_py2, T_justify_end,
                   T_px2, T_flex>>
ExampleSorted == <<T_inline_block, T_inline, T_flex, T_justify_end, T_py2, T_px2,
                   T_random_class>>

ClassStrings ==
    {JoinWith(t, <<" ">>) : t \in SeqsUpTo(TokenPool, MaxTokens)}
    \cup {<<" ">> \o JoinWith(t, <<"\n", " ">>) \o <<"\t">> : t \in SeqsUpTo(TokenPool, MaxTokens)}
    \cup {JoinWith(ExampleTokens, <<" ">>)}

\* sortOrder lists of a config file: one that ranks a variant-prefixed name,
\* one that lists a name twice.
SortOrders == {<<T_px2, T_sm_flex, T_flex>>, <<T_flex, T_px2, T_flex>>}

Sorters == {DefaultSorter} \cup {parse_custom_sorter(o) : o \in SortOrders}

InitSort ==
    /\ pc = "sort"
    /\ class_string \in ClassStrings
    /\ options \in {[regex |-> DefaultRegex, sorter |-> s, allow_duplicates |-> d] :
                       s \in Sorters, d \in BOOLEAN}
    /\ sorted_classes = <<>>
    /\ cli = NoCli
    /\ cli_regex = Pending
    /\ result = Pending
    /\ file_contents = <<>>
    /\ matched = FALSE
    /\ rewritten = <<>>
    /\ rewritten_again = <<>>

SortClasses ==
    /\ pc = "sort"
    /\ sorted_classes' = sort_classes(class_string, options)
    /\ pc' = "sorted"
    /\ UNCHANGED <<cli, cli_regex, result, options, file_contents, matched,
                   rewritten, rewritten_again, class_string>>

NextSort == SortClasses

SpecSort == InitSort /\ [][NextSort]_vars

(***************************************************************************)
(* Vocabulary of the claims about the sorter.                              *)
(***************************************************************************)
In == InputTokens(class_string, options)
Out == split_ascii_whitespace(sorted_classes)
Table == ActiveSorter(options)

IsKey(t) == t \in DOMAIN Table
Rank(t) == Table[t]

\* The catalog index of the prefix the matcher finds on t, 0 when none.
PrefixOf(t) == IF VARIANT_SEARCHER_find(t) = None THEN 0 ELSE VARIANT_SEARCHER_find(t)[1]

\* The token with the prefix and one separator character removed, when that
\* much of it exists and is a key of the table.
ResidualIsKey(t) ==
    /\ PrefixOf(t) # 0
    /\ Len(VARIANTS[PrefixOf(t)]) + 1 <= Len(t)
    /\ IsKey(SubSeq(t, Len(VARIANTS[PrefixOf(t)]) + 2, Len(t)))
ResidualRank(t) == Rank(SubSeq(t, Len(VARIANTS[PrefixOf(t)]) + 2, Len(t)))

Unmatched(t) == ~IsKey(t) /\ PrefixOf(t) = 0
Deferred(t) == ~IsKey(t) /\ PrefixOf(t) # 0 /\ ~ResidualIsKey(t)
InCustomBucket(t) == Unmatched(t) \/ Deferred(t)

Restrict(s, S) == SelectSeq(s, LAMBDA t : t \in S)
Positions(s) == 1..Len(s)

(***************************************************************************)
(* C3.  Token multiset preservation: when allow_duplicates is true, the    *)
(* multiset of whitespace-delimited tokens of sort_classes' output equals  *)
(* the multiset of tokens of its input, whichever bucket a token passes    *)
(* through.                                                                *)
(***************************************************************************)
C3_MultisetPreserved ==
    (pc = "sorted" /\ options.allow_duplicates)
        => BagOfSeq(Out) = BagOfSeq(split_ascii_whitespace(class_string))

\* A repeated deferred variant token next to a token shorter than
\* prefix + separator has been sorted with duplicates allowed.
C3_Witness ==
    /\ pc = "sorted"
    /\ options.allow_duplicates
    /\ split_ascii_whitespace(class_string) = <<T_sm_zz, T_sm, T_sm_zz>>
    /\ Out = <<T_sm_zz, T_sm, T_sm_zz>>

(***************************************************************************)
(* C4.  Canonical ordering: two different tokens that are both keys of the *)
(* active table stand in the output in the order of their ranks, whatever  *)
(* their input order; the inline / inline-block / ... example sorts as the *)
(* test says under the built-in table.                                     *)
(***************************************************************************)
C4_CanonicalOrder ==
    pc = "sorted" =>
        LET out == Out
        IN  /\ \A i, j \in Positions(out) :
                   (IsKey(out[i]) /\ IsKey(out[j]) /\ out[i] # out[j])
                       => ((i < j) <=> (Rank(out[i]) < Rank(out[j])))
            /\ (In = ExampleTokens /\ options.sorter = DefaultSorter)
                   => out = ExampleSorted

C4_Witness ==
    /\ pc = "sorted"
    /\ options.sorter = DefaultSorter
    /\ In = ExampleTokens
    /\ Out = ExampleSorted

\* The tier the claim gives a token: 0 canonical, k the group of catalog
\* prefix k, Len(VARIANTS) + 1 the custom tail.
ClaimedTier(t) ==
    IF ResidualIsKey(t) THEN PrefixOf(t)
    ELSE IF PrefixOf(t) # 0 THEN Len(VARIANTS) + 1
    ELSE IF IsKey(t) THEN 0
    ELSE Len(VARIANTS) + 1

(***************************************************************************)
(* C5.  Variant grouping.  As claimed: every token the matcher finds a     *)
(* prefix on and whose residual suffix is a key stands after all canonical *)
(* tokens, before the groups of later prefixes and before the custom tail, *)
(* in residual-rank order inside its group; a variant-matched token whose  *)
(* residual suffix is no key stands in the custom tail.                    *)
(***************************************************************************)
C5_AsClaimed ==
    pc = "sorted" =>
        LET out == Out
        IN  \A i, j \in Positions(out) : i < j =>
                /\ ClaimedTier(out[i]) <= ClaimedTier(out[j])
                /\ (ResidualIsKey(out[i]) /\ ResidualIsKey(out[j])
                        /\ PrefixOf(out[i]) = PrefixOf(out[j]))
                       => ResidualRank(out[i]) <= ResidualRank(out[j])

Tier(t) ==
    IF IsKey(t) THEN 0
    ELSE IF ResidualIsKey(t) THEN PrefixOf(t)
    ELSE Len(VARIANTS) + 1

\* C5 as amended: the same for every token that is not itself a key of the
\* table; a token that is a key is canonical whatever prefix it starts with.
C5_VariantGrouping ==
    pc = "sorted" =>
        LET out == Out
        IN  \A i, j \in Positions(out) : i < j =>
                /\ Tier(out[i]) <= Tier(out[j])
                /\ (Tier(out[i]) = Tier(out[j]) /\ Tier(out[i]) \in 1..Len(VARIANTS))
                       => ResidualRank(out[i]) <= ResidualRank(out[j])

\* Two groups and a deferred token, given in the opposite order.
C5_Witness ==
    /\ pc = "sorted"
    /\ options.sorter = DefaultSorter
    /\ In = <<T_sm_zz, T_md_flex, T_sm_px2>>
    /\ Out = <<T_sm_px2, T_md_flex, T_sm_zz>>

(***************************************************************************)
(* C6.  Out-of-catalog passthrough.  As claimed: a token with no canonical *)
(* key and no variant-prefix match keeps its input order against every     *)
(* other token of the custom bucket, deferred variant tokens included, and *)
(* a class string whose tokens all end in the custom bucket comes out in   *)
(* its original token order.                                               *)
(***************************************************************************)
C6_AsClaimed ==
    pc = "sorted" =>
        LET in == In
            out == Out
        IN  /\ \A u, v \in Range(in) :
                   (Unmatched(u) /\ InCustomBucket(v))
                       => Restrict(out, {u, v}) = Restrict(in, {u, v})
            /\ (\A t \in Range(in) : InCustomBucket(t)) => out = in

\* C6 as amended: it keeps its input order against every other token with
\* no canonical key and no variant-prefix match; the deferred variant tokens
\* follow all of them; a class string all of whose tokens have neither a
\* key nor a variant-prefix match comes out in its original token order.
C6_Passthrough ==
    pc = "sorted" =>
        LET in == In
            out == Out
        IN  /\ \A u, v \in Range(in) :
                   (Unmatched(u) /\ Unmatched(v))
                       => Restrict(out, {u, v}) = Restrict(in, {u, v})
            /\ \A i, j \in Positions(out) :
                   (Unmatched(out[i]) /\ Deferred(out[j])) => i < j
            /\ (\A t \in Range(in) : Unmatched(t)) => out = in

C6_Witness ==
    /\ pc = "sorted"
    /\ In = <<T_zz, T_sm_zz, T_yy>>
    /\ Out = <<T_zz, T_yy, T_sm_zz>>

(***************************************************************************)
(* C7.  Duplicate suppression: when allow_duplicates is false, the output  *)
(* of sort_classes holds each distinct input token exactly once, and the   *)
(* set of its tokens is the set of the input's tokens.                     *)
(***************************************************************************)
C7_DuplicatesSuppressed ==
    (pc = "sorted" /\ ~options.allow_duplicates) =>
        LET out == Out
        IN  /\ \A i, j \in Positions(out) : out[i] = out[j] => i = j
            /\ Range(out) = Range(split_ascii_whitespace(class_string))

\* A token repeated around another one has been collapsed.
C7_Witness ==
    /\ pc = "sorted"
    /\ ~options.allow_duplicates
    /\ split_ascii_whitespace(class_string) = <<T_px2, T_flex, T_px2>>
    /\ Out = <<T_flex, T_px2>>

(***************************************************************************)
(* Patterns.  A pattern string is modelled by what Regex::new makes of it: *)
(* whether it is well formed, and for a well-formed one its shape          *)
(*     pre [cls]+ post                                                     *)
(* (a literal, a greedy run of one or more characters of a class, a        *)
(* literal) with `groups` explicit capture groups: none, one around the    *)
(* run, or one around the run and one around the trailing literal.         *)
(***************************************************************************)
Ok(v) == [tag |-> "Ok", value |-> v]
Err(e) == [tag |-> "Err", error |-> e]
Panic == [tag |-> "Panic"]

ClassChars ==
    UNION {Range(t) : t \in TokenPool \cup Range(ExampleTokens)} \cup AsciiWhitespace

\* Regex::new: a syntax error for a malformed string; otherwise the compiled
\* pattern, whose captures_len() counts the implicit group of the whole
\* match along with the explicit ones.
Regex_new(p) ==
    IF p.well_formed
    THEN Ok([pre |-> p.pre, cls |-> p.cls, post |-> p.post,
             captures_len |-> p.groups + 1])
    ELSE Err("regex parse error")

Quote == <<"'">>
ClassAttr == <<"c", "l", "a", "s", "s", "=", "'">>

PatternString(pre, post, groups, well_formed) ==
    [pre |-> pre, cls |-> ClassChars, post |-> post, groups |-> groups,
     well_formed |-> well_formed]

\* defaults.rs RE: a class attribute, its value in group 1.
RE == Regex_new(PatternString(ClassAttr, Quote, 1, TRUE)).value

(***************************************************************************)
(* options.rs: Options::new_from_cli and what it calls.                    *)
(***************************************************************************)
CustomRegex(regex) == [tag |-> "CustomRegex", regex |-> regex]
CustomRegexEntries(entries) == [tag |-> "CustomRegexEntries", entries |-> entries]

get_custom_regex_from_cli_unchecked(c) ==
    IF c.custom_regex = None THEN Ok(DefaultRegex)
    ELSE LET regex == Regex_new(c.custom_regex[1])
         IN  IF regex.tag = "Err" THEN Err("Unable to parse custom regex")
             ELSE Ok(CustomRegex(regex.value))

get_custom_regex_from_cli(c) ==
    IF c.custom_regex = None THEN Ok(DefaultRegex)
    ELSE LET regex == Regex_new(c.custom_regex[1])
         IN  IF regex.tag = "Err" THEN Err("Unable to parse custom regex")
             ELSE IF regex.value.captures_len < 2
                  THEN Err("custom regex error, requires at-least 2 capture groups")
                  ELSE Ok(CustomRegex(regex.value))

\* An entry's pattern strings, container first.
EntryPatterns(entry) ==
    IF entry.tag = "Pair" THEN {entry.container, entry.classes} ELSE {entry.container}

\* Every Regex::new(..) of parse_custom_regex is unwrapped: a malformed
\* pattern string panics.
parse_custom_regex(entries) ==
    IF \E i \in 1..Len(entries) : \E p \in EntryPatterns(entries[i]) :
           Regex_new(p).tag = "Err"
    THEN Panic
    ELSE Ok([i \in 1..Len(entries) |->
                IF entries[i].tag = "Pair"
                THEN <<Regex_new(entries[i].container).value,
                       Some(Regex_new(entries[i].classes).value)>>
                ELSE <<Regex_new(entries[i].container).value, None>>])

\* Ok(<<sorter, config_regex>>), an error for a file that cannot be read or
\* parsed, a panic out of parse_custom_regex.
get_options_from_config(c) ==
    IF c.config_file = None THEN Ok(<<DefaultSorter, None>>)
    ELSE LET file == c.config_file[1]
         IN  IF ~file.readable THEN Err("Error reading the config file")
             ELSE IF ~file.json_ok THEN Err("Error while parsing the config file")
             ELSE LET sorter == IF file.sort_order = None THEN DefaultSorter
                                ELSE parse_custom_sorter(file.sort_order[1])
                      parsed == IF file.custom_regex = None THEN Ok(None)
                                ELSE parse_custom_regex(file.custom_regex[1])
                  IN  IF parsed.tag = "Panic" THEN Panic
                      ELSE IF file.custom_regex = None THEN Ok(<<sorter, None>>)
                      ELSE Ok(<<sorter, Some(parsed.value)>>)

\* The Options literal of new_from_cli, the fields the engine reads.
BuildOptions(c, regex, sorter, config_regex) ==
    [regex |-> IF regex.tag = "CustomRegex" THEN regex
               ELSE IF config_regex = None THEN DefaultRegex
               ELSE CustomRegexEntries(config_regex[1]),
     sorter |-> sorter,
     allow_duplicates |-> c.allow_duplicates]

new_from_cli(c) ==
    LET from_cli == get_custom_regex_from_cli(c)
        from_config == get_options_from_config(c)
    IN  IF from_cli.tag = "Err" THEN from_cli
        ELSE IF from_config.tag # "Ok" THEN from_config
        ELSE Ok(BuildOptions(c, from_cli.value, from_config.value[1],
                             from_config.value[2]))

(***************************************************************************)
(* Resolving the options of a command line.                                *)
(***************************************************************************)
PatternStrings ==
    {PatternString(pre, Quote, groups, well_formed) :
        pre \in {Quote, <<" ">> \o Quote}, groups \in 0..2, well_formed \in BOOLEAN}

StringEntry(container) == [tag |-> "String", container |-> container]
PairEntry(container, classes) ==
    [tag |-> "Pair", container |-> container, classes |-> classes]

EntryPool ==
    {StringEntry(PatternString(Quote, Quote, 1, TRUE)),
     StringEntry(PatternString(Quote, Quote, 1, FALSE)),
     PairEntry(PatternString(Quote, Quote, 1, TRUE),
               PatternString(<<" ">>, <<>>, 1, TRUE)),
     PairEntry(PatternString(Quote, Quote, 1, TRUE),
               PatternString(<<" ">>, <<>>, 1, FALSE))}

ConfigFile(readable, json_ok, sort_order, custom_regex) ==
    [readable |-> readable, json_ok |-> json_ok, sort_order |-> sort_order,
     custom_regex |-> custom_regex]

ConfigFiles ==
    {ConfigFile(FALSE, FALSE, None, None), ConfigFile(TRUE, FALSE, None, None)}
    \cup {ConfigFile(TRUE, TRUE, sort_order, custom_regex) :
             sort_order \in {None} \cup {Some(o) : o \in SortOrders},
             custom_regex \in {None} \cup {Some(e) : e \in SeqsUpTo(EntryPool, MaxEntries)}}

CliInputs ==
    [custom_regex : {None} \cup {Some(p) : p \in PatternStrings},
     config_file : {None} \cup {Some(f) : f \in ConfigFiles},
     allow_duplicates : BOOLEAN]

InitOptions ==
    /\ pc = "start"
    /\ cli \in CliInputs
    /\ cli_regex = Pending
    /\ result = Pending
    /\ options = NoOptions
    /\ file_contents = <<>>
    /\ matched = FALSE
    /\ rewritten = <<>>
    /\ rewritten_again = <<>>
    /\ class_string = <<>>
    /\ sorted_classes = <<>>

\* let cli_regex = get_custom_regex_from_cli(&cli)?;
GetCustomRegexFromCli ==
    /\ pc = "start"
    /\ cli_regex' = get_custom_regex_from_cli(cli)
    /\ IF cli_regex'.tag = "Err"
       THEN result' = cli_regex' /\ pc' = "returned"
       ELSE result' = result /\ pc' = "config"
    /\ UNCHANGED <<cli, options, file_contents, matched, rewritten,
                   rewritten_again, class_string, sorted_classes>>

\* let (sorter, config_regex) = get_options_from_config(&cli)?; Ok(Options {..})
ResolveOptions ==
    /\ pc = "config"
    /\ LET from_config == get_options_from_config(cli)
       IN  IF from_config.tag = "Panic"
           THEN pc' = "aborted" /\ UNCHANGED <<result, options>>
           ELSE IF from_config.tag = "Err"
           THEN pc' = "returned" /\ result' = from_config /\ UNCHANGED options
           ELSE /\ pc' = "returned"
                /\ options' = BuildOptions(cli, cli_regex.value,
                                           from_config.value[1], from_config.value[2])
                /\ result' = Ok(options')
    /\ UNCHANGED <<cli, cli_regex, file_contents, matched, rewritten,
                   rewritten_again, class_string, sorted_classes>>

NextOptions == GetCustomRegexFromCli \/ ResolveOptions

SpecOptions == InitOptions /\ [][NextOptions]_vars

OverrideCompiles == cli.custom_regex # None /\ cli.custom_regex[1].well_formed
ExplicitGroups == cli.custom_regex[1].groups

(***************************************************************************)
(* C8.  Override-pattern shape check.  As claimed: for a single override   *)
(* pattern that compiles, get_custom_regex_from_cli returns an error, and  *)
(* no Options value is built, when the pattern has fewer than 2 capture    *)
(* groups not counting the whole match; it returns CustomRegex only for    *)
(* patterns with at least 2 such groups.                                   *)
(***************************************************************************)
C8_AsClaimed ==
    (pc # "start" /\ OverrideCompiles) =>
        /\ ExplicitGroups < 2 => (cli_regex.tag = "Err" /\ result.tag = "Err")
        /\ cli_regex.tag = "Ok" => ExplicitGroups >= 2

\* C8 as amended: the error is returned, and no Options value is built, when
\* captures_len(), which counts the whole match as a group, is below 2, that
\* is when the pattern has no explicit capture group; CustomRegex is
\* returned for every pattern with at least 1 explicit group.
C8_ShapeCheck ==
    (pc # "start" /\ OverrideCompiles) =>
        /\ ExplicitGroups < 1 => (cli_regex.tag = "Err" /\ result.tag = "Err")
        /\ ExplicitGroups >= 1 =>
               (cli_regex.tag = "Ok" /\ cli_regex.value.tag = "CustomRegex")

\* An override pattern without a capture group has been turned down.
C8_Witness ==
    /\ pc = "returned"
    /\ OverrideCompiles
    /\ ExplicitGroups = 0
    /\ cli_regex.tag = "Err"
    /\ result.tag = "Err"

SuppliedPatterns ==
    (IF cli.custom_regex = None THEN {} ELSE {cli.custom_regex[1]})
    \cup (IF cli.config_file = None \/ cli.config_file[1].custom_regex = None
          THEN {}
          ELSE UNION {EntryPatterns(cli.config_file[1].custom_regex[1][i]) :
                         i \in 1..Len(cli.config_file[1].custom_regex[1])})

(***************************************************************************)
(* C9.  Pattern compile failure is a propagated construction error:        *)
(* whenever a supplied pattern string fails to compile, the override of    *)
(* the command line or the container or class pattern of a customRegex     *)
(* entry of the config file, new_from_cli ends by returning an error value *)
(* (it does not abort), before any text is rewritten.                      *)
(***************************************************************************)
C9_CompileFailureReturned ==
    (pc \in {"returned", "aborted"} /\ \E p \in SuppliedPatterns : ~p.well_formed)
        => (pc = "returned" /\ result.tag = "Err" /\ rewritten = <<>>)

(***************************************************************************)
(* The regex crate's operations on a compiled pattern pre [cls]+ post.     *)
(***************************************************************************)
LiteralAt(text, i, lit) ==
    i + Len(lit) - 1 <= Len(text) /\ SubSeq(text, i, i + Len(lit) - 1) = lit

RECURSIVE RunLen(_, _, _)
RunLen(text, s, cls) ==
    IF s > Len(text) \/ text[s] \notin cls THEN 0 ELSE 1 + RunLen(text, s + 1, cls)

\* The match starting at i, if there is one: the run is greedy and gives
\* characters back until the trailing literal matches.
MatchAt(re, text, i) ==
    IF ~LiteralAt(text, i, re.pre) THEN None
    ELSE LET s == i + Len(re.pre)
             ks == {k \in 1..RunLen(text, s, re.cls) : LiteralAt(text, s + k, re.post)}
         IN  IF ks = {} THEN None
             ELSE Some([start |-> i, group_start |-> s, group_end |-> s + Max(ks) - 1,
                        end |-> s + Max(ks) + Len(re.post) - 1])

\* captures_iter: the leftmost non-overlapping matches, left to right.
RECURSIVE CapturesIter(_, _, _)
CapturesIter(re, text, from) ==
    IF from > Len(text) THEN <<>>
    ELSE LET m == MatchAt(re, text, from)
         IN  IF m = None THEN CapturesIter(re, text, from + 1)
             ELSE <<m[1]>> \o CapturesIter(re, text, m[1].end + 1)

is_match(re, text) == \E i \in 1..Len(text) : MatchAt(re, text, i) # None

Caps0(text, m) == SubSeq(text, m.start, m.end)
Caps1(text, m) == SubSeq(text, m.group_start, m.group_end)

\* replace_all: the text between the matches, each match replaced by its
\* replacement.
RECURSIVE Splice(_, _, _, _)
Splice(text, from, matches, reps) ==
    IF matches = <<>> THEN SubSeq(text, from, Len(text))
    ELSE SubSeq(text, from, Head(matches).start - 1) \o Head(reps)
         \o Splice(text, Head(matches).end + 1, Tail(matches), Tail(reps))

\* str::replace: every non-overlapping occurrence of `from`, left to right.
RECURSIVE StrReplaceAt(_, _, _, _)
StrReplaceAt(str, i, from, to) ==
    IF i > Len(str) THEN <<>>
    ELSE IF LiteralAt(str, i, from)
         THEN to \o StrReplaceAt(str, i + Len(from), from, to)
         ELSE <<str[i]>> \o StrReplaceAt(str, i + 1, from, to)

str_replace(str, from, to) ==
    IF from = <<>>
    THEN to \o Flatten([i \in 1..Len(str) |-> <<str[i]>> \o to])
    ELSE StrReplaceAt(str, 1, from, to)

(***************************************************************************)
(* utils.rs: has_classes and sort_file_contents.                           *)
(***************************************************************************)
has_classes(text, opts) ==
    IF opts.regex.tag = "DefaultRegex" THEN is_match(RE, text)
    ELSE IF opts.regex.tag = "CustomRegex" THEN is_match(opts.regex.regex, text)
    ELSE \E i \in 1..Len(opts.regex.entries) : is_match(opts.regex.entries[i][1], text)

\* regex.replace_all(text, |caps| caps[0].replace(&caps[1], &sort_classes(&caps[1])))
ReplaceClasses(regex, text, opts) ==
    LET ms == CapturesIter(regex, text, 1)
    IN  Splice(text, 1, ms,
               [n \in 1..Len(ms) |->
                   str_replace(Caps0(text, ms[n]), Caps1(text, ms[n]),
                               sort_classes(Caps1(text, ms[n]), opts))])

\* One pass of the loop over the entries: container_regex.replace_all(..).
ReplaceEntry(entry, file_result, opts) ==
    LET ms == CapturesIter(entry[1], file_result, 1)
    IN  Splice(file_result, 1, ms,
               [n \in 1..Len(ms) |->
                   LET container == Caps1(file_result, ms[n])
                   IN  str_replace(Caps0(file_result, ms[n]), container,
                           IF entry[2] # None
                           THEN ReplaceClasses(entry[2][1], container, opts)
                           ELSE sort_classes(container, opts))])

RECURSIVE EntriesLoop(_, _, _)
EntriesLoop(entries, file_result, opts) ==
    IF entries = <<>> THEN file_result
    ELSE EntriesLoop(Tail(entries), ReplaceEntry(Head(entries), file_result, opts), opts)

\* all_pairs.insert(0, (RE.clone(), None))
AllPairs(pairs) == <<<<RE, None>>>> \o pairs

sort_file_contents(text, opts) ==
    IF opts.regex.tag = "DefaultRegex" THEN ReplaceClasses(RE, text, opts)
    ELSE IF opts.regex.tag = "CustomRegex"
         THEN ReplaceClasses(opts.regex.regex, text, opts)
         ELSE EntriesLoop(AllPairs(opts.regex.entries), text, opts)

(***************************************************************************)
(* Rewriting a text under resolved options.                                *)
(***************************************************************************)
Pieces == {ClassAttr, Quote, <<" ">>, T_flex, T_px2}

Texts == {Flatten(t) : t \in SeqsUpTo(Pieces, MaxPieces)}

\* The command lines whose options the texts are rewritten under.
RewriteClis ==
    [custom_regex : {None} \cup {Some(PatternString(pre, Quote, 1, TRUE)) :
                                    pre \in {Quote, <<" ">> \o Quote}},
     config_file : {None} \cup
         {Some(ConfigFile(TRUE, TRUE, None, Some(e))) :
             e \in SeqsUpTo({x \in EntryPool : \A p \in EntryPatterns(x) : p.well_formed},
                            MaxEntries)},
     allow_duplicates : BOOLEAN]

InitRewrite ==
    /\ pc = "ready"
    /\ \E c \in RewriteClis : options = new_from_cli(c).value
    /\ file_contents \in Texts
    /\ matched = FALSE
    /\ rewritten = <<>>
    /\ rewritten_again = <<>>
    /\ cli = NoCli
    /\ cli_regex = Pending
    /\ result = Pending
    /\ class_string = <<>>
    /\ sorted_classes = <<>>

HasClasses ==
    /\ pc = "ready"
    /\ matched' = has_classes(file_contents, options)
    /\ pc' = "checked"
    /\ UNCHANGED <<cli, cli_regex, result, options, file_contents, rewritten,
                   rewritten_again, class_string, sorted_classes>>

SortFileContents ==
    /\ pc = "checked"
    /\ rewritten' = sort_file_contents(file_contents, options)
    /\ pc' = "rewritten"
    /\ UNCHANGED <<cli, cli_regex, result, options, file_contents, matched,
                   rewritten_again, class_string, sorted_classes>>

SortFileContentsAgain ==
    /\ pc = "rewritten"
    /\ rewritten_again' = sort_file_contents(rewritten, options)
    /\ pc' = "done"
    /\ UNCHANGED <<cli, cli_regex, result, options, file_contents, matched,
                   rewritten, class_string, sorted_classes>>

NextRewrite == HasClasses \/ SortFileContents \/ SortFileContentsAgain

SpecRewrite == InitRewrite /\ [][NextRewrite]_vars

(***************************************************************************)
(* C1.  Idempotence of the rewriter: for every text and every fixed        *)
(* Options value, sort_file_contents(sort_file_contents(text)) equals      *)
(* sort_file_contents(text).                                               *)
(***************************************************************************)
C1_Idempotent == pc = "done" => rewritten_again = rewritten

\* The match with the span of group 1, and nothing else, replaced.
SpanReplaced(text, m, to) ==
    SubSeq(text, m.start, m.group_start - 1) \o to \o SubSeq(text, m.group_end + 1, m.end)

SpanReplaceClasses(regex, text, opts) ==
    LET ms == CapturesIter(regex, text, 1)
    IN  Splice(text, 1, ms,
               [n \in 1..Len(ms) |->
                   SpanReplaced(text, ms[n], sort_classes(Caps1(text, ms[n]), opts))])

SpanReplaceEntry(entry, text, opts) ==
    LET ms == CapturesIter(entry[1], text, 1)
    IN  Splice(text, 1, ms,
               [n \in 1..Len(ms) |->
                   SpanReplaced(text, ms[n],
                       IF entry[2] # None
                       THEN SpanReplaceClasses(entry[2][1], Caps1(text, ms[n]), opts)
                       ELSE sort_classes(Caps1(text, ms[n]), opts))])

RECURSIVE SpanEntriesLoop(_, _, _)
SpanEntriesLoop(entries, text, opts) ==
    IF entries = <<>> THEN text
    ELSE SpanEntriesLoop(Tail(entries), SpanReplaceEntry(Head(entries), text, opts), opts)

OnlySpansRewritten(text, opts) ==
    IF opts.regex.tag = "DefaultRegex" THEN SpanReplaceClasses(RE, text, opts)
    ELSE IF opts.regex.tag = "CustomRegex"
         THEN SpanReplaceClasses(opts.regex.regex, text, opts)
         ELSE SpanEntriesLoop(AllPairs(opts.regex.entries), text, opts)

(***************************************************************************)
(* C2.  Splice locality: sort_file_contents changes only the characters    *)
(* inside the span of capture group 1 of each match, which it replaces by  *)
(* the sorted class string; the rest of each match and all text outside    *)
(* the matches are unchanged, and a text with no match is returned as is.  *)
(***************************************************************************)
C2_SpliceLocality ==
    pc \in {"rewritten", "done"} => rewritten = OnlySpansRewritten(file_contents, options)

(***************************************************************************)
(* C10.  The match predicate agrees with the rewriter: in all three        *)
(* pattern-set shapes, if has_classes(text, options) returns false then    *)
(* sort_file_contents(text, options) returns the text unchanged.           *)
(***************************************************************************)
C10_NoMatchNoRewrite ==
    (pc \in {"rewritten", "done"} /\ ~matched) => rewritten = file_contents

====
